---- MODULE Spec2Model ----
(***************************************************************************)
(* Run driver of MedMNIST3D/train_and_eval_pytorch.py: main(), train() and *)
(* test() as a sequential state machine.                                   *)
(*                                                                         *)
(* Model objects live on a heap (a sequence of parameter records) and the  *)
(* program variables `model` and `best_model` hold references into it, so  *)
(* that copying and aliasing are different things.  The parameters of a    *)
(* network are abstracted to where they came from (`base`: fresh           *)
(* initialisation or a loaded checkpoint) and how many optimizer updates   *)
(* they have received (`steps`).  AUC values are the integers 0..MaxAuc,   *)
(* standing for 0, 1/MaxAuc, .., 1.  Learning rates are integers in units  *)
(* of 1e-7 and scheduler milestones are kept in quarters of an epoch, so   *)
(* 0.5*N and 0.75*N are exact.                                             *)
(***************************************************************************)
EXTENDS Integers, Sequences, FiniteSets, TLC

\* Bounds of the exploration
MaxEpochs == 4
MaxAuc == 2

\* Program constants
DefaultEpochs == 100
LrResnet == 10000
LrVit == 1000
GammaInv == 10
NumLogKeys == 9

Backbones == {"resnet18", "resnet50", "vit3d"}
ModelFlags == Backbones \cup {"densenet"}
ConvModes == {"ACSConv", "Conv2_5d", "Conv3d"}
ConvFlags == ConvModes \cup {"Conv1d"}
PretrainedFlags == {"i3d", "none"}
BatchCounts == {1, 2}
ModelPaths == {"None", "ckpt.pth"}

VARIABLES
    num_epochs, model_flag, conv, pretrained_3d, model_path,  \* arguments of main
    num_batches,     \* len(train_loader)
    auc_range,       \* the AUC values evaluator.evaluate can return
    pc,              \* position in main
    heap,            \* model objects: heap[ref] = parameters
    model,           \* reference of the live model (0: not built)
    best_model,      \* reference of the best snapshot (0: not assigned)
    best_auc, best_epoch,
    epoch,           \* loop variable of `for epoch in trange(num_epochs)`
    val_auc,         \* val_metrics[1] of the latest evaluation in the loop
    iteration,       \* global step counter
    lr,              \* learning rate held by the optimizer
    last_epoch,      \* scheduler.last_epoch
    milestones,      \* scheduler milestones, in quarters of an epoch
    writer,          \* SummaryWriter: "none", "open", "closed"
    writer_scalars,  \* number of add_scalar calls
    ckpt_file,       \* best_model.pth: << >> or <<parameters under 'net'>>
    log_file,        \* <data_flag>_log.txt: appended blocks
    evals,           \* history of test() calls
    val_aucs,        \* history of the loop's validation AUCs
    lr_hist,         \* learning rate used by each train() call
    events           \* history of the steps of main

vars == <<num_epochs, model_flag, conv, pretrained_3d, model_path, num_batches,
          auc_range, pc, heap, model, best_model, best_auc, best_epoch, epoch,
          val_auc, iteration, lr, last_epoch, milestones, writer,
          writer_scalars, ckpt_file, log_file, evals, val_aucs, lr_hist,
          events>>

args == <<num_epochs, model_flag, conv, pretrained_3d, model_path, num_batches,
          auc_range>>

----------------------------------------------------------------------------
\* Pure helpers

\* lr = 0.001 if model_flag not in ['vit3d'] else 0.0001
InitialLr(flag) == IF flag \notin {"vit3d"} THEN LrResnet ELSE LrVit

\* a variant that truncates the milestones to whole epochs
MilestonesTruncated(n) == <<4 * ((2 * n) \div 4), 4 * ((3 * n) \div 4)>>

\* milestones = [0.5 * num_epochs, 0.75 * num_epochs], in quarters
Milestones(n) == <<2 * n, 3 * n>>

\* a variant that compares the milestones with the epoch about to start
MilestoneCountAhead(ms, e) ==
    Cardinality({i \in DOMAIN ms : ms[i] = 4 * (e + 1)})

\* MultiStepLR keeps Counter(milestones); an integer epoch is a key of it
\* exactly when it equals a milestone value (50 == 50.0), never when the
\* milestone has a fractional part.
MilestoneCount(ms, e) == Cardinality({i \in DOMAIN ms : ms[i] = 4 * e})

RECURSIVE Decay(_, _)
Decay(rate, k) == IF k = 0 THEN rate ELSE Decay(rate \div GammaInv, k - 1)

\* MultiStepLR.get_lr at epoch e: lr * gamma ** milestones[e] if e is a
\* milestone, else lr unchanged
StepLr(rate, ms, e) == Decay(rate, MilestoneCount(ms, e))

\* the three independent `if conv == ...` statements; no else branch
Converter(c, p3d) ==
    LET m0 == "unconverted"
        m1 == IF c = "ACSConv" THEN "ACS" ELSE m0
        m2 == IF c = "Conv2_5d" THEN "2_5d" ELSE m1
        m3 == IF c = "Conv3d"
              THEN (IF p3d = "i3d" THEN "3d_i3d" ELSE "3d")
              ELSE m2
    IN m3

\* a variant that falls back to a default backbone
AnyBackbone(flag) == TRUE

\* if model_flag == ... elif ... else: raise NotImplementedError
KnownBackbone(flag) == flag \in Backbones

\* a variant without the early return
NeverReturn(n) == FALSE

\* if num_epochs == 0: return
EarlyReturn(n) == n = 0

\* a variant that iterates one index too many
InRangeInclusive(i, n) == i <= n

\* for epoch in trange(num_epochs): index i is iterated iff i < num_epochs
InRange(i, n) == i < n

\* variants of the improvement test: ties count, every epoch counts
ImprovesOrTies(cur, best) == cur >= best
AlwaysImproves(cur, best) == TRUE

\* if cur_auc > best_auc
Improves(cur, best) == cur > best

\* a variant that binds the snapshot to the live object instead of a copy
AliasRef(h, r) == r

\* deepcopy(model): a new object with the same parameters
CopyRef(h, r) == Len(h) + 1
CopyHeap(h, r) == Append(h, h[r])

\* test(model, evaluator, loader, ...) on the three splits, in call order
ThreeSplits(phase, obj, save) ==
    << [phase |-> phase, split |-> "train", obj |-> obj, save |-> save],
       [phase |-> phase, split |-> "val", obj |-> obj, save |-> save],
       [phase |-> phase, split |-> "test", obj |-> obj, save |-> save] >>

----------------------------------------------------------------------------
\* Initial states

InitState ==
    /\ pc = "build"
    /\ heap = << >>
    /\ model = 0
    /\ best_model = 0
    /\ best_auc = 0
    /\ best_epoch = 0
    /\ epoch = 0
    /\ val_auc = 0
    /\ iteration = 0
    /\ lr = 0
    /\ last_epoch = 0
    /\ milestones = << >>
    /\ writer = "none"
    /\ writer_scalars = 0
    /\ ckpt_file = << >>
    /\ log_file = << >>
    /\ evals = << >>
    /\ val_aucs = << >>
    /\ lr_hist = << >>
    /\ events = << >>

Init ==
    /\ num_epochs \in 0..MaxEpochs
    /\ model_flag \in ModelFlags
    /\ conv \in ConvFlags
    /\ pretrained_3d \in (IF conv = "Conv3d" THEN PretrainedFlags ELSE {"i3d"})
    /\ model_path \in ModelPaths
    /\ num_batches \in BatchCounts
    /\ auc_range = 0..MaxAuc
    /\ InitState

\* The default epoch count, with an evaluator of constant validation AUC
InitSched ==
    /\ num_epochs \in {0, DefaultEpochs}
    /\ model_flag \in ModelFlags
    /\ conv \in {"ACSConv", "Conv1d"}
    /\ pretrained_3d = "i3d"
    /\ model_path \in ModelPaths
    /\ num_batches = 1
    /\ auc_range \in {{a} : a \in 0..MaxAuc}
    /\ InitState

----------------------------------------------------------------------------
\* Steps of main

\* lines 78-98: build the backbone, convert its convolutions
BuildModel ==
    /\ pc = "build"
    /\ IF KnownBackbone(model_flag)
       THEN /\ heap' = << [arch |-> model_flag,
                           converter |-> Converter(conv, pretrained_3d),
                           base |-> "init",
                           steps |-> 0] >>
            /\ model' = 1
            /\ events' = Append(events, "build")
            /\ pc' = "resume"
       ELSE /\ events' = Append(events, "raise")
            /\ pc' = "error"
            /\ UNCHANGED <<heap, model>>
    /\ UNCHANGED <<args, best_model, best_auc, best_epoch, epoch, val_auc,
                   iteration, lr, last_epoch, milestones, writer,
                   writer_scalars, ckpt_file, log_file, evals, val_aucs,
                   lr_hist>>

\* lines 106-115: load the given checkpoint and evaluate it on three splits
ResumeEval ==
    /\ pc = "resume"
    /\ IF model_path # "None"
       THEN LET loaded == [heap[model] EXCEPT !.base = "ckpt"]
            IN /\ heap' = [heap EXCEPT ![model] = loaded]
               /\ evals' = evals \o ThreeSplits("resume", loaded, TRUE)
               /\ events' = Append(events, "resume_eval")
       ELSE UNCHANGED <<heap, evals, events>>
    /\ pc' = "epochs"
    /\ UNCHANGED <<args, model, best_model, best_auc, best_epoch, epoch,
                   val_auc, iteration, lr, last_epoch, milestones, writer,
                   writer_scalars, ckpt_file, log_file, val_aucs, lr_hist>>

\* lines 117-118
CheckEpochs ==
    /\ pc = "epochs"
    /\ IF EarlyReturn(num_epochs)
       THEN /\ pc' = "done"
            /\ events' = Append(events, "return")
       ELSE /\ pc' = "setup"
            /\ UNCHANGED events
    /\ UNCHANGED <<args, heap, model, best_model, best_auc, best_epoch, epoch,
                   val_auc, iteration, lr, last_epoch, milestones, writer,
                   writer_scalars, ckpt_file, log_file, evals, val_aucs,
                   lr_hist>>

\* lines 122-142: optimizer, scheduler, writer, best-model state, loop entry
Setup ==
    /\ pc = "setup"
    /\ milestones' = Milestones(num_epochs)
    /\ last_epoch' = 0
    /\ lr' = StepLr(InitialLr(model_flag), Milestones(num_epochs), 0)
    /\ writer' = "open"
    /\ best_auc' = 0
    /\ best_epoch' = 0
    /\ best_model' = CopyRef(heap, model)
    /\ heap' = CopyHeap(heap, model)
    /\ iteration' = 0
    /\ epoch' = 0
    /\ pc' = IF InRange(0, num_epochs) THEN "train" ELSE "save"
    /\ events' = Append(events, "setup")
    /\ UNCHANGED <<args, model, val_auc, writer_scalars, ckpt_file, log_file,
                   evals, val_aucs, lr_hist>>

\* line 145 and train(), lines 203-223: one optimizer step per batch
Train ==
    /\ pc = "train"
    /\ heap' = [heap EXCEPT ![model].steps = @ + num_batches]
    /\ iteration' = iteration + num_batches
    /\ writer_scalars' = writer_scalars + num_batches
    /\ lr_hist' = Append(lr_hist, lr)
    /\ events' = Append(events, "train")
    /\ pc' = "eval"
    /\ UNCHANGED <<args, model, best_model, best_auc, best_epoch, epoch,
                   val_auc, lr, last_epoch, milestones, writer, ckpt_file,
                   log_file, evals, val_aucs>>

\* lines 147-149 and test(), lines 228-254: the live model on three splits
Eval ==
    /\ pc = "eval"
    /\ \E a \in auc_range :
          /\ val_auc' = a
          /\ val_aucs' = Append(val_aucs, a)
    /\ evals' = evals \o ThreeSplits("epoch", heap[model], FALSE)
    /\ events' = Append(events, "eval")
    /\ pc' = "sched"
    /\ UNCHANGED <<args, heap, model, best_model, best_auc, best_epoch, epoch,
                   iteration, lr, last_epoch, milestones, writer,
                   writer_scalars, ckpt_file, log_file, lr_hist>>

\* line 151: scheduler.step()
SchedulerStep ==
    /\ pc = "sched"
    /\ last_epoch' = last_epoch + 1
    /\ lr' = StepLr(lr, milestones, last_epoch + 1)
    /\ events' = Append(events, "sched_step")
    /\ pc' = "log"
    /\ UNCHANGED <<args, heap, model, best_model, best_auc, best_epoch, epoch,
                   val_auc, iteration, milestones, writer, writer_scalars,
                   ckpt_file, log_file, evals, val_aucs, lr_hist>>

\* lines 153-161: the nine tracked scalars go to the writer
LogScalars ==
    /\ pc = "log"
    /\ writer_scalars' = writer_scalars + NumLogKeys
    /\ events' = Append(events, "add_scalars")
    /\ pc' = "checkpoint"
    /\ UNCHANGED <<args, heap, model, best_model, best_auc, best_epoch, epoch,
                   val_auc, iteration, lr, last_epoch, milestones, writer,
                   ckpt_file, log_file, evals, val_aucs, lr_hist>>

\* lines 163-170, and the loop's advance (line 142)
CheckpointCheck ==
    /\ pc = "checkpoint"
    /\ IF Improves(val_auc, best_auc)
       THEN /\ best_epoch' = epoch
            /\ best_auc' = val_auc
            /\ best_model' = CopyRef(heap, model)
            /\ heap' = CopyHeap(heap, model)
       ELSE UNCHANGED <<best_epoch, best_auc, best_model, heap>>
    /\ IF InRange(epoch + 1, num_epochs)
       THEN /\ epoch' = epoch + 1
            /\ pc' = "train"
       ELSE /\ pc' = "save"
            /\ UNCHANGED epoch
    /\ events' = Append(events, "checkpoint_check")
    /\ UNCHANGED <<args, model, val_auc, iteration, lr, last_epoch, milestones,
                   writer, writer_scalars, ckpt_file, log_file, evals,
                   val_aucs, lr_hist>>

\* lines 172-177: state = {'net': model.state_dict()}; torch.save(state, path)
SavedNet(h, live, best) == h[live]

SaveCheckpoint ==
    /\ pc = "save"
    /\ ckpt_file' = << SavedNet(heap, model, best_model) >>
    /\ events' = Append(events, "save_checkpoint")
    /\ pc' = "final_eval"
    /\ UNCHANGED <<args, heap, model, best_model, best_auc, best_epoch, epoch,
                   val_auc, iteration, lr, last_epoch, milestones, writer,
                   writer_scalars, log_file, evals, val_aucs, lr_hist>>

\* lines 180-182: test(best_model, ...) on three splits
FinalEvalModel(h, live, best) == h[best]

FinalEval ==
    /\ pc = "final_eval"
    /\ evals' = evals \o
                ThreeSplits("final", FinalEvalModel(heap, model, best_model), TRUE)
    /\ events' = Append(events, "final_eval")
    /\ pc' = "write_log"
    /\ UNCHANGED <<args, heap, model, best_model, best_auc, best_epoch, epoch,
                   val_auc, iteration, lr, last_epoch, milestones, writer,
                   writer_scalars, ckpt_file, log_file, val_aucs, lr_hist>>

\* a variant that returns after the log without closing the writer
WriteLogNoClose ==
    /\ pc = "write_log"
    /\ log_file' = Append(log_file, heap[best_model])
    /\ events' = Append(events, "append_log")
    /\ pc' = "done"
    /\ UNCHANGED <<args, heap, model, best_model, best_auc, best_epoch, epoch,
                   val_auc, iteration, lr, last_epoch, milestones, writer,
                   writer_scalars, ckpt_file, evals, val_aucs, lr_hist>>

\* lines 184-192: the summary block is appended to <data_flag>_log.txt
WriteLog ==
    /\ pc = "write_log"
    /\ log_file' = Append(log_file, heap[best_model])
    /\ events' = Append(events, "append_log")
    /\ pc' = "close"
    /\ UNCHANGED <<args, heap, model, best_model, best_auc, best_epoch, epoch,
                   val_auc, iteration, lr, last_epoch, milestones, writer,
                   writer_scalars, ckpt_file, evals, val_aucs, lr_hist>>

\* line 194: writer.close()
CloseWriter ==
    /\ pc = "close"
    /\ writer' = "closed"
    /\ events' = Append(events, "close_writer")
    /\ pc' = "done"
    /\ UNCHANGED <<args, heap, model, best_model, best_auc, best_epoch, epoch,
                   val_auc, iteration, lr, last_epoch, milestones,
                   writer_scalars, ckpt_file, log_file, evals, val_aucs,
                   lr_hist>>

Next ==
    \/ BuildModel
    \/ ResumeEval
    \/ CheckEpochs
    \/ Setup
    \/ Train
    \/ Eval
    \/ SchedulerStep
    \/ LogScalars
    \/ CheckpointCheck
    \/ SaveCheckpoint
    \/ FinalEval
    \/ WriteLog
    \/ CloseWriter

Spec == Init /\ [][Next]_vars

SpecSched == InitSched /\ [][Next]_vars

----------------------------------------------------------------------------
\* Vocabulary of the properties

RECURSIVE Repeat(_, _)
Repeat(s, n) == IF n = 0 THEN << >> ELSE s \o Repeat(s, n - 1)

Range(s) == {s[i] : i \in DOMAIN s}
MaxOf(s) == CHOOSE m \in Range(s) : \A x \in Range(s) : x <= m
FirstIndex(s, v) == CHOOSE i \in DOMAIN s : s[i] = v /\ \A j \in 1..(i - 1) : s[j] # v
Count(s, v) == Cardinality({i \in DOMAIN s : s[i] = v})

Resumed == model_path # "None"
ResumePasses == IF Resumed THEN 1 ELSE 0

\* every evaluated epoch has been through its checkpoint check
AfterEpoch ==
    /\ val_aucs # << >>
    /\ pc \in {"train", "save", "final_eval", "write_log", "close", "done"}

\* the live model as the validation pass of 0-based epoch e saw it
ValEvals == SelectSeq(evals, LAMBDA r : r.phase = "epoch" /\ r.split = "val")
LiveAtEpoch(e) == ValEvals[e + 1].obj

FinalEvals == SelectSeq(evals, LAMBDA r : r.phase = "final")

\* the steps of main the state order of the run driver speaks of
DriverSteps == {"resume_eval", "train", "eval", "checkpoint_check",
                "save_checkpoint", "final_eval", "append_log", "close_writer"}
Driver == SelectSeq(events, LAMBDA e : e \in DriverSteps)
Prefix == (IF Resumed THEN <<"resume_eval">> ELSE << >>)
          \o Repeat(<<"train", "eval", "checkpoint_check">>, num_epochs)

\* the i-th three-split pass of the run, 1-based
PassOk(i, phase) ==
    /\ evals[3 * i - 2].split = "train"
    /\ evals[3 * i - 1].split = "val"
    /\ evals[3 * i].split = "test"
    /\ \A k \in (3 * i - 2)..(3 * i) : evals[k].phase = phase

----------------------------------------------------------------------------
\* C1: at the checkpoint check of an epoch, best_model, best_auc and
\* best_epoch are replaced (by a copy of the live model, the epoch's
\* validation AUC and the epoch index) exactly when the validation AUC is
\* strictly greater than the best held before; on a tie or a lower value all
\* three are left as they were.  No other step of the loop touches them.
C1_StrictReplacement ==
    [][ /\ pc = "checkpoint" =>
            IF val_auc > best_auc
            THEN /\ best_auc' = val_auc
                 /\ best_epoch' = epoch
                 /\ best_model' # best_model
                 /\ heap'[best_model'] = heap[model]
            ELSE /\ UNCHANGED <<best_auc, best_epoch, best_model>>
                 /\ heap'[best_model'] = heap[best_model]
        /\ pc \in {"train", "eval", "sched", "log"} =>
            UNCHANGED <<best_auc, best_epoch, best_model>>
      ]_vars

\* a tie with a positive best has just been checked; the snapshot is older
C1_Witness ==
    /\ pc = "train"
    /\ epoch >= 2
    /\ val_auc = best_auc
    /\ best_auc > 0
    /\ best_epoch < epoch - 1

\* C2 as stated: after each completed epoch best_auc is the maximum of the
\* validation AUCs so far, best_epoch the smallest epoch attaining it, and
\* the snapshot the live model as it stood at the end of that epoch.
C2_Original ==
    AfterEpoch =>
        /\ best_auc = MaxOf(val_aucs)
        /\ best_epoch = FirstIndex(val_aucs, MaxOf(val_aucs)) - 1
        /\ heap[best_model] = LiveAtEpoch(best_epoch)

\* C2 amended: as C2, but the snapshot is the live model of epoch best_epoch
\* only when the maximum is positive; while every validation AUC has been 0
\* the snapshot is still the copy taken before the first training epoch.
C2_BestIsFirstMax ==
    AfterEpoch =>
        /\ best_auc = MaxOf(val_aucs)
        /\ best_epoch = FirstIndex(val_aucs, MaxOf(val_aucs)) - 1
        /\ IF MaxOf(val_aucs) > 0
           THEN heap[best_model] = LiveAtEpoch(best_epoch)
           ELSE heap[best_model] = [heap[model] EXCEPT !.steps = 0]

\* the maximum was reached at epoch 1 and tied again at epoch 2
C2_Witness ==
    /\ pc = "done"
    /\ Len(val_aucs) >= 3
    /\ best_epoch = 1
    /\ val_aucs[3] = best_auc
    /\ val_aucs[1] < best_auc

\* C3: the parameters written to best_model.pth under 'net' are those of
\* the best snapshot.
C3_SavedIsBest ==
    ckpt_file # << >> => ckpt_file[1] = heap[best_model]

\* C4 as stated: the run goes INIT, optional RESUME_EVAL, N times (TRAIN,
\* EVAL, CHECKPOINT_CHECK), FINAL_EVAL, then the checkpoint write and the
\* summary log, then the close of the writer; the checkpoint file exists
\* only once the three final evaluation passes are done.
C4_Original ==
    /\ (pc = "done" /\ num_epochs >= 1) =>
          Driver = Prefix \o <<"final_eval", "save_checkpoint", "append_log",
                               "close_writer">>
    /\ ckpt_file # << >> => Len(FinalEvals) = 3

\* C4 amended: the checkpoint file is written right after the loop and
\* before the final evaluation; the summary log is appended after the three
\* final passes; the writer is closed last and nothing follows it.
C4_CodeOrder ==
    /\ (pc = "done" /\ num_epochs >= 1) =>
          /\ Driver = Prefix \o <<"save_checkpoint", "final_eval",
                                  "append_log", "close_writer">>
          /\ writer = "closed"
    /\ FinalEvals # << >> => ckpt_file # << >>
    /\ log_file # << >> => Len(FinalEvals) = 3
    /\ writer = "closed" => (pc = "done" /\ Len(log_file) = 1)
    /\ pc = "done" => ~ ENABLED Next

\* a resumed run of several epochs has finished
C4_Witness ==
    /\ pc = "done"
    /\ num_epochs >= 2
    /\ Resumed
    /\ writer = "closed"
    /\ Len(ckpt_file) = 1

\* C5: a run with N >= 1 that reaches the end has called train N times and
\* made N + 1 three-split passes (train, val, test) plus one more, before
\* the loop, exactly when a resume path was given.
C5_TrainAndEvalCounts ==
    /\ Count(events, "train") <= num_epochs
    /\ (pc = "done" /\ num_epochs >= 1) =>
          /\ Count(events, "train") = num_epochs
          /\ Len(lr_hist) = num_epochs
          /\ iteration = num_epochs * num_batches
          /\ Len(evals) = 3 * (ResumePasses + num_epochs + 1)
          /\ \A i \in 1..ResumePasses : PassOk(i, "resume")
          /\ \A i \in 1..num_epochs : PassOk(ResumePasses + i, "epoch")
          /\ PassOk(ResumePasses + num_epochs + 1, "final")

\* a resumed run and a fresh run, each of several epochs, have finished
C5_Witness ==
    /\ pc = "done"
    /\ num_epochs >= 3
    /\ Len(evals) = 3 * (num_epochs + 1 + ResumePasses)
    /\ Resumed

\* C6: with epoch count 0 main ends after the model is built (and after the
\* resume evaluation when a path is given): no optimizer step, no checkpoint
\* check, no loop, no checkpoint file, no summary log; the three-split
\* resume evaluation has run iff a resume path was given.
C6_ZeroEpochs ==
    num_epochs = 0 =>
        /\ pc \in {"build", "resume", "epochs", "done", "error"}
        /\ iteration = 0
        /\ lr_hist = << >>
        /\ \A r \in DOMAIN heap : heap[r].steps = 0
        /\ Range(events) \subseteq {"build", "raise", "resume_eval", "return"}
        /\ val_aucs = << >>
        /\ best_model = 0
        /\ writer = "none"
        /\ ckpt_file = << >>
        /\ log_file = << >>
        /\ pc = "done" =>
              /\ Len(evals) = 3 * ResumePasses
              /\ \A i \in 1..ResumePasses : PassOk(i, "resume")
              /\ ~ ENABLED Next

\* a resumed run with epoch count 0 has returned after its evaluation
C6_Witness ==
    /\ num_epochs = 0
    /\ pc = "done"
    /\ Resumed
    /\ Len(evals) = 3

\* C7 as stated: an unknown backbone or an unknown conversion mode aborts
\* main before any evaluation or training, with no model built.
C7_Original ==
    (model_flag \notin Backbones \/ conv \notin ConvModes) =>
        /\ pc \in {"build", "error"}
        /\ model = 0
        /\ evals = << >>
        /\ lr_hist = << >>

\* C7 amended: an unknown backbone aborts main before any evaluation or
\* training, with no model built; an unknown conversion mode never aborts:
\* the backbone is left unconverted and the run goes on.
C7_BackboneFatalConvIgnored ==
    /\ model_flag \notin Backbones =>
          /\ pc \in {"build", "error"}
          /\ model = 0
          /\ heap = << >>
          /\ evals = << >>
          /\ lr_hist = << >>
    /\ pc = "error" => model_flag \notin Backbones
    /\ (conv \notin ConvModes /\ model # 0) =>
          /\ heap[model].converter = "unconverted"
          /\ pc # "error"

\* main has raised on an unknown backbone
C7_Witness ==
    /\ pc = "error"
    /\ model_flag \notin Backbones
    /\ events = <<"raise">>

\* C8: with epoch count 100 the rate is multiplied by gamma twice, when the
\* scheduler's epoch reaches 50 and 75: the training epochs of index below
\* 50 use the initial rate, 50..74 the rate times gamma, 75..99 the rate
\* times gamma squared.
C8_DefaultSchedule ==
    (num_epochs = DefaultEpochs) =>
        LET lr0 == InitialLr(model_flag)
            Rate(e) == IF e < 50 THEN lr0
                       ELSE IF e < 75 THEN lr0 \div GammaInv
                       ELSE lr0 \div (GammaInv * GammaInv)
        IN /\ \A i \in DOMAIN lr_hist : lr_hist[i] = Rate(i - 1)
           /\ pc \notin {"build", "resume", "epochs", "setup", "error"} =>
                 lr = Rate(last_epoch)
           /\ pc = "done" =>
                 /\ Len(lr_hist) = DefaultEpochs
                 /\ last_epoch = DefaultEpochs
                 /\ Cardinality({i \in 1..(DefaultEpochs - 1) :
                                    lr_hist[i + 1] # lr_hist[i]}) = 2

\* the run of 100 epochs has finished at the rate times gamma squared
C8_Witness ==
    /\ num_epochs = DefaultEpochs
    /\ pc = "done"
    /\ lr * GammaInv * GammaInv = InitialLr(model_flag)
    /\ lr_hist[50] # lr_hist[51]
    /\ lr_hist[75] # lr_hist[76]

\* C9: the best snapshot is an object of its own: best_model never refers
\* to the live model, its parameters change in no step that leaves the
\* reference in place (every training epoch is such a step), and each
\* final evaluation pass reads the snapshot's parameters.
C9_SnapshotIndependent ==
    [][ /\ best_model' # 0 => best_model' # model'
        /\ (best_model # 0 /\ best_model' = best_model) =>
              heap'[best_model] = heap[best_model]
        /\ \A i \in DOMAIN evals' :
              evals'[i].phase = "final" => evals'[i].obj = heap'[best_model']
        /\ (pc = "final_eval" /\ best_auc > 0) =>
              \A i \in DOMAIN evals' :
                 evals'[i].phase = "final" =>
                    evals'[i].obj = LiveAtEpoch(best_epoch)
      ]_vars

\* the best epoch was followed by further training, and the final passes ran
C9_Witness ==
    /\ pc = "done"
    /\ best_auc > 0
    /\ best_epoch + 2 < num_epochs
    /\ heap[best_model] # heap[model]
    /\ Len(FinalEvals) = 3

\* C10: the rate decays at the end of an epoch only when the scheduler's
\* epoch count equals 0.5*N or 0.75*N exactly: twice (at N/2 and 3N/4) when
\* N is a multiple of 4, once (at N/2) when N is even and not a multiple of
\* 4, never when N is odd.
C10_ExactMilestones ==
    (pc = "done" /\ num_epochs >= 1) =>
        LET N == num_epochs
            D == {e \in 1..(N - 1) : lr_hist[e + 1] # lr_hist[e]}
        IN /\ lr_hist[1] = InitialLr(model_flag)
           /\ lr = lr_hist[N]
           /\ \A e \in D : lr_hist[e + 1] * GammaInv = lr_hist[e]
           /\ N % 4 = 0 => D = {N \div 2, (3 * N) \div 4}
           /\ (N % 2 = 0 /\ N % 4 # 0) => D = {N \div 2}
           /\ N % 2 = 1 => D = {}

\* a run with an odd epoch count above 1 has finished at the initial rate
C10_Witness ==
    /\ pc = "done"
    /\ num_epochs >= 3
    /\ num_epochs % 2 = 1
    /\ lr = InitialLr(model_flag)

====
